---- MODULE Spec2Model ----
(***************************************************************************)
(* Model of NEGradient_GenePriority/compute_models/smc.py: the class       *)
(* MatrixCompletion (constructor, calculate_loss, calculate_rmse,          *)
(* MC_adaptive_2 and its helpers nthr, func_h, D_h).                       *)
(*                                                                         *)
(* Floats are modelled at reduced width: a float x is the integer          *)
(* floor(x * Scale), finite values lie in -FloatMax..FloatMax, a result    *)
(* beyond that range is +inf or -inf, and NaN is a value of its own that   *)
(* propagates through arithmetic and makes every comparison false, as in   *)
(* IEEE 754.  Matrices are sequences of rows; every entry of a factor is   *)
(* stored, and a zero of a mask is a structural zero of the sparse mask.   *)
(***************************************************************************)
EXTENDS Integers, Sequences, FiniteSets, TLC

\* ------------------------------------------------------------------ bounds
Scale == 100
FloatMax == 200000
MaxIter == 2
MaxThreshold == 3
MaxRuns == 2

\* --------------------------------------------------------- float arithmetic
PInf == FloatMax + 1
NInf == -PInf
NaN == FloatMax + 2

IsNaN(a) == a = NaN
IsInf(a) == a = PInf \/ a = NInf
IsFinite(a) == ~IsNaN(a) /\ ~IsInf(a)

Sgn(a) == IF a > 0 THEN 1 ELSE IF a < 0 THEN -1 ELSE 0

\* rounding of an exact result to the float range; the product below is
\* floor(a * b / Scale), formed from the quotient and remainder of a
Sat(z) == IF z > FloatMax THEN PInf ELSE IF z < -FloatMax THEN NInf ELSE z

\* the float of the integer literal n
Lit(n) == n * Scale

FNeg(a) == IF IsNaN(a) THEN NaN ELSE -a

FAdd(a, b) ==
    IF IsNaN(a) \/ IsNaN(b) THEN NaN
    ELSE IF IsInf(a) /\ IsInf(b) THEN (IF a = b THEN a ELSE NaN)
    ELSE IF IsInf(a) THEN a
    ELSE IF IsInf(b) THEN b
    ELSE Sat(a + b)

FSub(a, b) == FAdd(a, FNeg(b))

FMul(a, b) ==
    IF IsNaN(a) \/ IsNaN(b) THEN NaN
    ELSE IF IsInf(a) \/ IsInf(b)
         THEN (IF a = 0 \/ b = 0 THEN NaN
               ELSE IF Sgn(a) * Sgn(b) > 0 THEN PInf ELSE NInf)
    ELSE Sat((a \div Scale) * b + ((a % Scale) * b) \div Scale)

\* numpy float division: x/0 is an infinity or NaN, never an exception
FDiv(a, b) ==
    IF IsNaN(a) \/ IsNaN(b) THEN NaN
    ELSE IF IsInf(a) /\ IsInf(b) THEN NaN
    ELSE IF IsInf(a) THEN (IF b >= 0 THEN a ELSE -a)
    ELSE IF IsInf(b) THEN 0
    ELSE IF b = 0 THEN (IF a = 0 THEN NaN ELSE IF a > 0 THEN PInf ELSE NInf)
    ELSE Sat((a * Scale) \div b)

\* a ** e for an integer exponent e >= 1
RECURSIVE FPow(_, _)
FPow(a, e) == IF e <= 1 THEN a ELSE FMul(FPow(a, e - 1), a)

\* a > b on floats: false as soon as one side is NaN
FGt(a, b) == ~IsNaN(a) /\ ~IsNaN(b) /\ a > b

\* integer e-th root of n >= 0 by bisection: the r with r^e <= n < (r+1)^e
\* (PowLeq(r, e, n) is r^e <= n, computed without forming r^e)
RECURSIVE PowLeq(_, _, _)
PowLeq(r, e, n) ==
    IF e = 0 THEN 1 <= n
    ELSE IF r = 0 THEN TRUE
    ELSE PowLeq(r, e - 1, n \div r)

RECURSIVE RootHi(_, _, _)
RootHi(n, e, p) == IF ~PowLeq(p, e, n) THEN p ELSE RootHi(n, e, 2 * p)

RECURSIVE Bisect(_, _, _, _)
Bisect(n, e, lo, hi) ==
    IF hi - lo <= 1 THEN lo
    ELSE LET mid == (lo + hi) \div 2
         IN  IF PowLeq(mid, e, n) THEN Bisect(n, e, mid, hi)
             ELSE Bisect(n, e, lo, mid)

IRoot(n, e) == Bisect(n, e, 0, RootHi(n, e, 1))

\* np.sqrt: NaN on a negative argument
FSqrt(a) ==
    IF IsNaN(a) THEN NaN
    ELSE IF a = PInf THEN PInf
    ELSE IF a < 0 THEN NaN
    ELSE IRoot(a * Scale, 2)

\* nthr(a, 3) = pow(a, 1/3) on a numpy float: NaN on a negative base,
\* +inf on an infinite one
nthr(a) ==
    IF IsNaN(a) THEN NaN
    ELSE IF IsInf(a) THEN PInf
    ELSE IF a < 0 THEN NaN
    ELSE IRoot(a * Scale * Scale, 3)

\* ----------------------------------------------------------------- matrices
Rows(X) == Len(X)
Cols(X) == IF Len(X) = 0 THEN 0 ELSE Len(X[1])
Shape(X) == <<Rows(X), Cols(X)>>

RECURSIVE FSum(_)
FSum(s) == IF Len(s) = 0 THEN 0 ELSE FAdd(FSum(SubSeq(s, 1, Len(s) - 1)), s[Len(s)])

Flatten(X) == [p \in 1..(Rows(X) * Cols(X)) |->
                 X[((p - 1) \div Cols(X)) + 1][((p - 1) % Cols(X)) + 1]]

Transpose(X) == [jj \in 1..Cols(X) |-> [ii \in 1..Rows(X) |-> X[ii][jj]]]

Dot(X, Y) == [ii \in 1..Rows(X) |-> [jj \in 1..Cols(Y) |->
                 FSum([l \in 1..Cols(X) |-> FMul(X[ii][l], Y[l][jj])])]]

MAdd(X, Y) == [ii \in 1..Rows(X) |-> [jj \in 1..Cols(X) |-> FAdd(X[ii][jj], Y[ii][jj])]]
MSub(X, Y) == [ii \in 1..Rows(X) |-> [jj \in 1..Cols(X) |-> FSub(X[ii][jj], Y[ii][jj])]]
MScale(c, X) == [ii \in 1..Rows(X) |-> [jj \in 1..Cols(X) |-> FMul(c, X[ii][jj])]]

\* mask.multiply(X): only the stored (non-zero) entries of the sparse mask
\* take part, so a structural zero of the mask stays zero
Multiply(M, X) == [ii \in 1..Rows(X) |-> [jj \in 1..Cols(X) |->
                     IF M[ii][jj] = 0 THEN 0 ELSE FMul(M[ii][jj], X[ii][jj])]]

\* sp.linalg.norm(X) (Frobenius); X.sum()
Norm(X) == FSqrt(FSum([p \in 1..(Rows(X) * Cols(X)) |->
                          FMul(Flatten(X)[p], Flatten(X)[p])]))
Total(X) == FSum(Flatten(X))

VStack(X, Y) == X \o Y
Top(W, m) == SubSeq(W, 1, m)
Bottom(W, m) == SubSeq(W, m + 1, Len(W))


\* ------------------------------------------------------------------- inputs
\* np.random.randn after np.random.seed(123), in thousandths
Randn == <<-1086, 997, 283, -1506, -579, 1651, -2427, -429, 1266, -867>>

Half == Scale \div 2
Quarter == Scale \div 4

AValues == { <<<<0>>, <<0>>>>, <<<<Lit(1)>>, <<0>>>>, <<<<Lit(9)>>, <<0>>>> }
MaskValues == { <<<<Lit(1)>>, <<Lit(1)>>>>, <<<<Lit(1)>>, <<0>>>>,
                <<<<Lit(1)>>, <<Lit(1)>>, <<Lit(1)>>>> }
TestValues == { <<<<Lit(1)>>, <<Lit(1)>>>>, <<<<Lit(1)>>, <<Lit(1)>>, <<0>>>> }
TestMaskValues == { <<<<0>>, <<Lit(1)>>>>, <<<<0>>, <<Lit(1)>>, <<Lit(1)>>>> }
RankValues == {1}
MuValues == {Scale \div 10}
LamValues == {Scale \div 100}
LValues == {Scale \div 20, Lit(1), Lit(4)}
Rho1Values == {Lit(1), Lit(2)}
Rho2Values == {Half}

\* -------------------------------------------------------------------- state
VARIABLES
    pc,            \* "new", "idle", "loop", "test", "exit", "returned", "raised"
    A, mask, test_matrix, test_mask, k, mu, iterations,   \* fields set by __init__
    H1, H2,        \* the factors (self.H1, self.H2)
    rng,           \* number of values drawn from the seeded global generator
    lam, L0, rho1, rho2, threshold,                       \* arguments of MC_adaptive_2
    L,             \* the local L, which starts as the argument
    loss, rmse,    \* the two histories
    Wk, alpha_k, tau, t1, i, grad_f_Wk, Wk1, fk1, j, flag, \* locals of MC_adaptive_2
    result,        \* <<>> or <<the MCAdaptive2Result returned>>
    err,           \* the exception the last operation ended in, "" if none
    nruns,         \* calls of MC_adaptive_2 made so far
    fresh,         \* the instance has not run MC_adaptive_2 before the current call
    runs,          \* the calls that ended: freshness of the instance, outcome
    accepted,      \* outer iterations committed by the current call
    L_start,       \* L at the start of the current outer iteration
    committed,     \* <<>> or <<the terms of the acceptance test of the last commit>>
    nan_committed  \* the current call committed a NaN loss

fields == <<A, mask, test_matrix, test_mask, k, mu, iterations>>
args == <<lam, L0, rho1, rho2, threshold>>
locals == <<Wk, alpha_k, tau, t1, i, grad_f_Wk, Wk1, fk1, j, flag>>
ghosts == <<accepted, L_start, committed, nan_committed>>
vars == <<pc, fields, H1, H2, rng, args, L, loss, rmse, locals, result, err,
          nruns, fresh, runs, ghosts>>

\* ---------------------------------------------------------------- __init__
\* np.random.seed(123): the generator restarts its stream
SeedKeep(r) == r
Seed(r) == 0

\* np.random.randn(r, c) drawn from position p of the stream, row-major
Draw(p, r, c) == [ii \in 1..r |-> [jj \in 1..c |->
                    (Randn[p + (ii - 1) * c + jj] * Scale) \div 1000]]

\* the constructor stores its arguments and draws the factors; it makes no
\* check of the shapes of mask, test and test_mask against A
MatrixCompletion(a, msk, tst, tmsk, kk, m_u, its) ==
    /\ A' = a /\ mask' = msk /\ test_matrix' = tst /\ test_mask' = tmsk
    /\ k' = kk /\ mu' = m_u /\ iterations' = its
    /\ H1' = Draw(Seed(rng), Rows(a), kk)
    /\ H2' = Draw(Seed(rng) + Rows(a) * kk, kk, Cols(a))
    /\ rng' = Seed(rng) + Rows(a) * kk + kk * Cols(a)
    /\ pc' = "idle" /\ err' = "" /\ fresh' = TRUE
    /\ UNCHANGED <<args, L, loss, rmse, locals, result, nruns, runs, ghosts>>

Construct ==
    /\ pc = "new"
    /\ \E a \in AValues, msk \in MaskValues, tst \in TestValues,
          tmsk \in TestMaskValues, kk \in RankValues, m_u \in MuValues,
          its \in 1..MaxIter :
          MatrixCompletion(a, msk, tst, tmsk, kk, m_u, its)

\* a second optimizer constructed from the same arguments
Reconstruct ==
    /\ pc \in {"returned", "raised"}
    /\ nruns < MaxRuns
    /\ MatrixCompletion(A, mask, test_matrix, test_mask, k, mu, iterations)

\* ---------------------------------------------- calculate_loss, calculate_rmse
\* scipy raises ValueError("inconsistent shapes") from multiply for the
\* shapes enumerated here (none of them broadcasts)
MultiplyRaises(M, X) == Shape(M) # Shape(X)

calculate_loss_raises(a, msk) == MultiplyRaises(msk, a)
calculate_loss(a, msk, h1, h2) ==
    FMul(Half, FPow(Norm(Multiply(msk, MSub(a, Dot(h1, h2)))), 2))

\* test_mask.nonzero(), as positions of the row-major flattening
Nonzero(M) == SelectSeq([p \in 1..(Rows(M) * Cols(M)) |-> p],
                        LAMBDA p : Flatten(M)[p] # 0)

Predicted(tmsk, h1, h2) ==
    LET tp == Multiply(tmsk, Dot(h1, h2))
    IN  [q \in 1..Len(Nonzero(tmsk)) |-> Flatten(tp)[Nonzero(tmsk)[q]]]
Actual(tst, tmsk) ==
    [q \in 1..Len(Nonzero(tmsk)) |->
        tst[((Nonzero(tmsk)[q] - 1) \div Cols(tmsk)) + 1]
           [((Nonzero(tmsk)[q] - 1) % Cols(tmsk)) + 1]]

\* the exception calculate_rmse ends in, "" if it returns: multiply raises on
\* a test mask of another shape, indexing raises outside the test matrix, and
\* sklearn's mean_squared_error validates its arguments and raises ValueError
\* on an empty sample and on a NaN or infinite value
calculate_rmse_error(tst, tmsk, h1, h2) ==
    IF MultiplyRaises(tmsk, Dot(h1, h2)) THEN "ValueError"
    ELSE IF \E q \in 1..Len(Nonzero(tmsk)) :
               \/ ((Nonzero(tmsk)[q] - 1) \div Cols(tmsk)) + 1 > Rows(tst)
               \/ ((Nonzero(tmsk)[q] - 1) % Cols(tmsk)) + 1 > Cols(tst)
         THEN "IndexError"
    ELSE IF Len(Nonzero(tmsk)) = 0 THEN "ValueError"
    ELSE IF \E q \in 1..Len(Nonzero(tmsk)) :
               ~IsFinite(Predicted(tmsk, h1, h2)[q]) THEN "ValueError"
    ELSE ""

calculate_rmse(tst, tmsk, h1, h2) ==
    LET act == Actual(tst, tmsk)
        prd == Predicted(tmsk, h1, h2)
        sq  == [q \in 1..Len(act) |-> FPow(FSub(act[q], prd[q]), 2)]
    IN  FSqrt(FDiv(FSum(sq), Lit(Len(act))))


\* ------------------------------------------------------- helpers of the loop
m == Rows(A)
n == Cols(A)

func_h(W, ta) ==
    LET fro_norm == Norm(W)
    IN  FAdd(FMul(Quarter, FPow(fro_norm, 4)),
             FMul(FMul(Half, ta), FPow(fro_norm, 2)))

D_h(W1, W2, ta) ==
    LET grad_h_w2 == MScale(FAdd(FPow(Norm(W2), 2), ta), W2)
    IN  FSub(FSub(func_h(W1, ta), func_h(W2, ta)),
             Total(Dot(Transpose(grad_h_w2), MSub(W1, W2))))

\* grad_u, grad_v and their stack
grad_f(a, msk, h1, h2, m_u) ==
    LET grad_u == MAdd(Dot(Multiply(msk, MSub(Dot(h1, h2), a)), Transpose(h2)),
                       MScale(m_u, h1))
        grad_v == MAdd(Dot(Multiply(Transpose(msk),
                                    MSub(Dot(Transpose(h2), Transpose(h1)),
                                         Transpose(a))), h1),
                       MScale(m_u, Transpose(h2)))
    IN  VStack(grad_u, grad_v)

\* grad = (||Wk||^2 + tau) * Wk - alpha_k * grad_f_Wk
GradStep(W, gf, alpha, ta) ==
    MSub(MScale(FAdd(FPow(Norm(W), 2), ta), W), MScale(alpha, gf))

Tau2(ta, grad) ==
    FDiv(FDiv(FSub(FMul(Lit(-2), FPow(ta, 3)),
                   FMul(Lit(27), FPow(Norm(grad), 2))), Lit(27)), Lit(2))

\* t = tau/3 + nthr(T1, 3) + nthr(T2, 3), cube being the term under the root
SolveT(ta, tau2, cube) ==
    LET root == FSqrt(FAdd(FPow(tau2, 2), cube))
        T1 == FAdd(FNeg(tau2), root)
        T2 == FSub(FNeg(tau2), root)
    IN  FAdd(FAdd(FDiv(ta, Lit(3)), nthr(T1)), nthr(T2))

\* the candidate of the first proposal of an outer iteration: t1 ** 3
FirstCandidate(W, gf, alpha, ta, t_1) ==
    LET grad == GradStep(W, gf, alpha, ta)
        t == SolveT(ta, Tau2(ta, grad), FPow(t_1, 3))
    IN  MScale(FDiv(Lit(1), t), grad)

\* the candidate of a backtracking retry: (t1 / 3) ** 3
RetryCandidate(W, gf, alpha, ta, t_1) ==
    LET grad == GradStep(W, gf, alpha, ta)
        t == SolveT(ta, Tau2(ta, grad), FPow(FDiv(t_1, Lit(3)), 3))
    IN  MScale(FDiv(Lit(1), t), grad)

\* the right-hand side of the condition of the inner loop
InnerSum(gf, W1, W) == Total(Dot(Transpose(gf), MSub(W1, W)))
Bound(base, gf, W1, W, Lv, ta) ==
    FAdd(FAdd(base, InnerSum(gf, W1, W)), FMul(Lv, D_h(W1, W, ta)))

\* the test with the sign of the inner-product term flipped
RejectedFlipped(fk, base, gf, W1, W, Lv, ta) ==
    FGt(fk, FAdd(FSub(base, InnerSum(gf, W1, W)), FMul(Lv, D_h(W1, W, ta))))

\* the condition of the inner loop: the candidate is rejected
Rejected(fk, base, gf, W1, W, Lv, ta) == FGt(fk, Bound(base, gf, W1, W, Lv, ta))

\* the overflow test that lets one more retry through
OverflowLate(r1, jj, th) == FGt(FPow(r1, jj), FloatMax) \/ jj = th + 1

\* the overflow test of the inner loop, made after j was incremented
Overflow(r1, jj, th) == FGt(FPow(r1, jj), FloatMax) \/ jj = th

\* L shrunk after every acceptance, backtracking or not
ShrinkAlways(Lv, flg, r2) == FMul(Lv, r2)

\* L after acceptance
Shrink(Lv, flg, r2) == IF flg = 1 THEN FMul(Lv, r2) ELSE Lv

\* the histories after a commit
NextLoss(lossv, fk, mn) == Append(lossv, FDiv(fk, Lit(mn)))
NextRmseSkip(rmsev, r) == rmsev
NextRmse(rmsev, r) == Append(rmsev, r)

Last(s) == s[Len(s)]
RejectedNow == Rejected(fk1, Last(loss), grad_f_Wk, Wk1, Wk, L, tau)

\* ------------------------------------------------------------ MC_adaptive_2
\* the call ends in the exception e: it is logged and re-raised, and the
\* caller gets no result
Raise(e) ==
    /\ pc' = "raised"
    /\ err' = e
    /\ runs' = Append(runs, [fresh |-> fresh', err |-> e, loss_history |-> <<>>,
                             rmse_history |-> <<>>, completed_matrix |-> <<>>])

\* lines 153-170: the baseline, the stacked state and the constants
MC_adaptive_2(la, l0, r1, r2, th) ==
    LET lossErr == calculate_loss_raises(A, mask)
        rmseErr == IF lossErr THEN "ValueError"
                   ELSE calculate_rmse_error(test_matrix, test_mask, H1, H2)
        ta == FDiv(Norm(A), Lit(3))
        tau1 == FDiv(FNeg(FPow(ta, 2)), Lit(3))
    IN  /\ lam' = la /\ L0' = l0 /\ rho1' = r1 /\ rho2' = r2 /\ threshold' = th
        /\ L' = l0
        /\ nruns' = nruns + 1
        /\ result' = <<>>
        /\ accepted' = 0 /\ L_start' = l0 /\ committed' = <<>>
        /\ nan_committed' = FALSE
        /\ grad_f_Wk' = <<>> /\ Wk1' = <<>> /\ fk1' = 0 /\ j' = 0 /\ flag' = 0
        /\ i' = 0
        /\ loss' = IF lossErr THEN <<>>
                   ELSE <<FDiv(calculate_loss(A, mask, H1, H2), Lit(m * n))>>
        /\ IF rmseErr # ""
           THEN /\ Raise(rmseErr)
                /\ rmse' = <<>>
                /\ Wk' = <<>> /\ alpha_k' = 0 /\ tau' = 0 /\ t1' = 0
           ELSE /\ rmse' = <<calculate_rmse(test_matrix, test_mask, H1, H2)>>
                /\ Wk' = VStack(H1, Transpose(H2))
                /\ alpha_k' = FDiv(Lit(1), l0)
                /\ tau' = ta
                /\ t1' = FDiv(tau1, Lit(3))
                /\ IF iterations >= 1
                   THEN pc' = "loop" /\ err' = "" /\ UNCHANGED runs
                   ELSE Raise("UnboundLocalError")
        /\ UNCHANGED <<fields, H1, H2, rng>>

\* the first call on an instance; a later instance is called with the
\* arguments of the first call
Call ==
    /\ pc = "idle"
    /\ \E la \in LamValues, l0 \in LValues, r1 \in Rho1Values,
          r2 \in Rho2Values, th \in 1..MaxThreshold :
          /\ nruns > 0 => <<la, l0, r1, r2, th>> = args
          /\ UNCHANGED fresh
          /\ MC_adaptive_2(la, l0, r1, r2, th)

\* a repeated call on the same instance, with the same arguments
CallAgain ==
    /\ pc \in {"returned", "raised"}
    /\ nruns < MaxRuns
    /\ fresh' = FALSE
    /\ MC_adaptive_2(lam, L0, rho1, rho2, threshold)

\* lines 172-210: gradient, first proposal, the factors take the candidate
Propose ==
    /\ pc = "loop"
    /\ grad_f_Wk' = grad_f(A, mask, H1, H2, mu)
    /\ Wk1' = FirstCandidate(Wk, grad_f_Wk', alpha_k, tau, t1)
    /\ H1' = Top(Wk1', m)
    /\ H2' = Transpose(Bottom(Wk1', m))
    /\ fk1' = calculate_loss(A, mask, H1', H2')
    /\ j' = 0 /\ flag' = 0
    /\ L_start' = L
    /\ pc' = "test"
    /\ UNCHANGED <<fields, rng, args, L, loss, rmse, Wk, alpha_k, tau, t1, i,
                   result, err, nruns, fresh, runs, accepted, committed,
                   nan_committed>>

\* lines 213-241: the test fails and the step is retried with a larger L
Backtrack ==
    /\ pc = "test"
    /\ RejectedNow
    /\ ~Overflow(rho1, j + 1, threshold)
    /\ flag' = 1 /\ j' = j + 1
    /\ L' = FMul(L, rho1)
    /\ UNCHANGED fresh
    /\ IF L' = 0
       THEN /\ Raise("ZeroDivisionError")
            /\ UNCHANGED <<alpha_k, Wk1, H1, H2, fk1>>
       ELSE /\ alpha_k' = FDiv(FAdd(Lit(1), lam), L')
            /\ Wk1' = RetryCandidate(Wk, grad_f_Wk, alpha_k', tau, t1)
            /\ H1' = Top(Wk1', m)
            /\ H2' = Transpose(Bottom(Wk1', m))
            /\ fk1' = calculate_loss(A, mask, H1', H2')
            /\ UNCHANGED <<pc, err, runs>>
    /\ UNCHANGED <<fields, rng, args, loss, rmse, Wk, tau, t1, i, grad_f_Wk,
                   result, nruns, ghosts>>

\* lines 216-223: the test fails and the overflow check raises
RaiseOverflow ==
    /\ pc = "test"
    /\ RejectedNow
    /\ Overflow(rho1, j + 1, threshold)
    /\ flag' = 1 /\ j' = j + 1
    /\ UNCHANGED fresh
    /\ Raise("OverflowError")
    /\ UNCHANGED <<fields, H1, H2, rng, args, L, loss, rmse, Wk, alpha_k, tau,
                   t1, i, grad_f_Wk, Wk1, fk1, result, nruns, ghosts>>

\* lines 243-259 and the loop header: the test passes and the candidate is
\* committed
Commit ==
    /\ pc = "test"
    /\ ~RejectedNow
    /\ L' = Shrink(L, flag, rho2)
    /\ Wk' = Wk1
    /\ accepted' = accepted + 1
    /\ committed' = <<[f |-> fk1, base |-> Last(loss),
                       inner |-> InnerSum(grad_f_Wk, Wk1, Wk),
                       L |-> L, dh |-> D_h(Wk1, Wk, tau)]>>
    /\ UNCHANGED fresh
    /\ IF L' = 0
       THEN /\ Raise("ZeroDivisionError")
            /\ UNCHANGED <<alpha_k, loss, rmse, i, nan_committed>>
       ELSE /\ alpha_k' = FDiv(FAdd(Lit(1), lam), L')
            /\ loss' = NextLoss(loss, fk1, m * n)
            /\ nan_committed' = IsNaN(fk1)
            /\ IF calculate_rmse_error(test_matrix, test_mask, H1, H2) # ""
               THEN /\ Raise(calculate_rmse_error(test_matrix, test_mask, H1, H2))
                    /\ UNCHANGED <<rmse, i>>
               ELSE /\ rmse' = NextRmse(rmse,
                                  calculate_rmse(test_matrix, test_mask, H1, H2))
                    /\ err' = ""
                    /\ UNCHANGED runs
                    /\ IF IsNaN(fk1) THEN pc' = "exit" /\ i' = i
                       ELSE IF i + 1 < iterations THEN pc' = "loop" /\ i' = i + 1
                       ELSE pc' = "exit" /\ i' = i
    /\ UNCHANGED <<fields, H1, H2, rng, args, tau, t1, grad_f_Wk, Wk1, fk1, j,
                   flag, result, nruns, L_start>>

\* lines 270-280: the result record (the wall-clock runtime is left out)
IterationsField(idx) == idx

Return ==
    /\ pc = "exit"
    /\ result' = <<[completed_matrix |-> Dot(H1, H2), loss_history |-> loss,
                    iterations |-> IterationsField(i), rmse_history |-> rmse]>>
    /\ runs' = Append(runs, [fresh |-> fresh, err |-> "",
                             loss_history |-> loss, rmse_history |-> rmse,
                             completed_matrix |-> Dot(H1, H2)])
    /\ pc' = "returned"
    /\ UNCHANGED <<fields, H1, H2, rng, args, L, loss, rmse, locals, err, nruns,
                   fresh, ghosts>>

\* ------------------------------------------------------------ specification
Init ==
    /\ pc = "new"
    /\ A = <<>> /\ mask = <<>> /\ test_matrix = <<>> /\ test_mask = <<>>
    /\ k = 0 /\ mu = 0 /\ iterations = 0
    /\ H1 = <<>> /\ H2 = <<>>
    /\ rng = 0
    /\ lam = 0 /\ L0 = 0 /\ rho1 = 0 /\ rho2 = 0 /\ threshold = 0 /\ L = 0
    /\ loss = <<>> /\ rmse = <<>>
    /\ Wk = <<>> /\ alpha_k = 0 /\ tau = 0 /\ t1 = 0 /\ i = 0
    /\ grad_f_Wk = <<>> /\ Wk1 = <<>> /\ fk1 = 0 /\ j = 0 /\ flag = 0
    /\ result = <<>> /\ err = ""
    /\ nruns = 0 /\ fresh = TRUE /\ runs = <<>>
    /\ accepted = 0 /\ L_start = 0 /\ committed = <<>> /\ nan_committed = FALSE

Next ==
    \/ Construct
    \/ Reconstruct
    \/ Call
    \/ CallAgain
    \/ Propose
    \/ Backtrack
    \/ RaiseOverflow
    \/ Commit
    \/ Return

Spec == Init /\ [][Next]_vars

\* A call in progress runs on: the loop is sequential code, so while the
\* call is between its entry and its end it takes its next step.  Every step
\* of a call moves the program position or counts one more failed test, and
\* RunStep describes exactly that much of a step.
Running == pc \in {"loop", "test", "exit"}
RunStep ==
    /\ Running
    /\ pc' \in {"loop", "test", "exit", "returned", "raised"}
    /\ j' \in {0, j, j + 1}
FairSpec == Spec /\ WF_<<pc, j>>(RunStep)


\* ------------------------------------------------------------------- claims
Done == pc \in {"returned", "raised"}

\* the bound of the acceptance test of the last commit, from its terms
CommittedBound ==
    FAdd(FAdd(committed[1].base, committed[1].inner),
         FMul(committed[1].L, committed[1].dh))

C2_Bounded ==
    /\ pc = "test" => j <= threshold - 1
    /\ (pc = "raised" /\ err = "OverflowError") => j <= threshold

\* every step of a call in progress moves the position or counts a failed test
C2_Progress == [][Running => (pc' # pc \/ j' = j + 1)]_vars

C2_BacktrackingTerminates == [](C2_Bounded) /\ C2_Progress /\ (Running ~> Done)

C2_Witness ==
    /\ pc = "raised" /\ err = "OverflowError"
    /\ threshold >= 2 /\ j = threshold

\* C3: a returned result holds the baseline plus one loss and one RMSE entry
\* per accepted outer iteration, and while the loop runs (a rejected
\* candidate under test included) both histories have accepted + 1 entries.
C3_HistoryLengths ==
    /\ pc = "returned" =>
          /\ Len(result[1].loss_history) = accepted + 1
          /\ Len(result[1].rmse_history) = accepted + 1
    /\ pc \in {"loop", "test"} =>
          /\ Len(loss) = accepted + 1
          /\ Len(rmse) = accepted + 1

C3_Witness ==
    /\ pc = "returned" /\ accepted >= 1 /\ flag = 1
    /\ Len(result[1].loss_history) = accepted + 1

C5_NaNReturnsNormally ==
    /\ nan_committed => pc # "raised"
    /\ (nan_committed /\ pc = "returned") =>
          /\ IsNaN(Last(result[1].loss_history))
          /\ Len(result[1].rmse_history) = Len(result[1].loss_history)

SameOutput(r, q) ==
    /\ r.err = q.err
    /\ r.loss_history = q.loss_history
    /\ r.rmse_history = q.rmse_history
    /\ r.completed_matrix = q.completed_matrix

\* C6 as stated: any two calls with identical inputs and hyperparameters
\* end alike, with identical histories and completed matrix, on two fresh
\* optimizers and on the same optimizer alike (all calls of a behaviour have
\* the same inputs and hyperparameters).
C6_Determinism ==
    \A a \in 1..Len(runs), b \in 1..Len(runs) :
        SameOutput(runs[a], runs[b])

\* C6 amended: two calls with identical inputs and hyperparameters, each the
\* first call on a freshly constructed optimizer, end alike: both raise the
\* same exception or both return identical histories and completed matrix.
C6_FreshDeterminism ==
    \A a \in 1..Len(runs), b \in 1..Len(runs) :
        (runs[a].fresh /\ runs[b].fresh) =>
            SameOutput(runs[a], runs[b])

C6_Witness ==
    /\ Len(runs) = 2 /\ runs[1].fresh /\ runs[2].fresh
    /\ runs[2].err = ""
    /\ Len(runs[2].loss_history) >= 2

\* C7: a constructor call with a mask, test matrix or test mask of another
\* shape than A ends in InvalidDimensionError, with no factor created and no
\* random value drawn.
ShapeMismatch ==
    \/ Shape(mask) # Shape(A)
    \/ Shape(test_matrix) # Shape(A)
    \/ Shape(test_mask) # Shape(A)

C7_DimensionError ==
    (pc # "new" /\ ShapeMismatch) =>
        /\ err = "InvalidDimensionError"
        /\ H1 = <<>> /\ H2 = <<>>
        /\ rng = 0

\* C8: while a candidate is proposed but not accepted, and after the
\* overflow error, H1 and H2 are the row-m split of the stacked state W of
\* the last accepted iteration.
C8_FactorsChangeOnlyAtCommit ==
    (pc = "test" \/ (pc = "raised" /\ err = "OverflowError")) =>
        /\ H1 = Top(Wk, m)
        /\ H2 = Transpose(Bottom(Wk, m))

\* L multiplied cnt times by r1, one multiplication after the other
RECURSIVE IterMul(_, _, _)
IterMul(Lv, r1, cnt) == IF cnt = 0 THEN Lv ELSE FMul(IterMul(Lv, r1, cnt - 1), r1)

\* C9: the test after j failed tests uses L_i * rho_up^j; an iteration that
\* commits after j failed tests leaves L_i when j = 0 and
\* L_i * rho_up^j * rho_down when j >= 1; the first proposal of the first
\* iteration uses alpha = 1/L0 and that of every later one (1 + lambda) / L.
C9_StepSizeBookkeeping ==
    /\ pc = "test" => L = IterMul(L_start, rho1, j)
    /\ (pc = "test" /\ j = 0) =>
          alpha_k = IF i = 0 THEN FDiv(Lit(1), L0)
                    ELSE FDiv(FAdd(Lit(1), lam), L)
    /\ (pc = "test" /\ j >= 1) => alpha_k = FDiv(FAdd(Lit(1), lam), L)
    /\ (pc \in {"loop", "exit"} /\ accepted >= 1) =>
          L = IF j = 0 THEN L_start
              ELSE FMul(IterMul(L_start, rho1, j), rho2)

C9_Witness ==
    /\ pc = "test" /\ i >= 1 /\ j = 0
    /\ committed # <<>>
    /\ committed[1].L # L

\* C10: every candidate, first proposal or retry, is the step-2 operator
\* applied to (W, grad_f(W), alpha) with the constants fixed at setup, so a
\* retry yields what the first proposal yields for the same alpha.
C10_SameStepOperator ==
    pc = "test" => Wk1 = FirstCandidate(Wk, grad_f_Wk, alpha_k, tau, t1)

====
